---------------------------- MODULE Spec2Model ----------------------------
(***************************************************************************)
(* A model of the spreadsheet document store: the entries and views tables *)
(* of db.go (initializeDB with its legacy migration, insertRow,            *)
(* getAllRows, updateField, deleteRow, replaceRow, the view functions),    *)
(* mergeWithSchema and the import / export / new-database handlers of the  *)
(* UI.  JSON encoding and decoding are modelled by what encoding/json      *)
(* does to the Go values that the code hands to it.                        *)
(***************************************************************************)
EXTENDS Integers, Sequences, FiniteSets, TLC

VARIABLES
    pc,          \* position of the process: "boot", "ready", "crashed", or a harness phase
    tableCols,   \* column names of the entries table (PRAGMA table_info), <<>>: no table
    legacyRows,  \* rows of a legacy-layout entries table, in ORDER BY id order
    entries,     \* rows of entries(id, data), ascending by id
    seq,         \* sqlite_sequence.seq of the entries table (0: no row)
    views,       \* rows of views(id, name, data), ascending by id
    viewSeq,     \* sqlite_sequence.seq of the views table
    result,      \* the last call: its name, arguments and what it returned
    assigned,    \* history: the largest entry id any insert has returned or found
    expected,    \* history: id -> JSON content last written through the store API
    bootClean,   \* history: every row on disk at start held a JSON object
    mSchema,     \* merge harness: the schema argument
    mDoc,        \* merge harness: the document argument
    mOut,        \* merge harness: the results of the calls made so far
    file,        \* round-trip harness: the buffer written by "Save file"
    orig,        \* round-trip harness: the store that was exported
    config,      \* the field description handed to loadConfig, <<>>: none
    upd          \* the updateField calls in progress, <<>>: none

vars == <<pc, tableCols, legacyRows, entries, seq, views, viewSeq, result,
          assigned, expected, bootClean, mSchema, mDoc, mOut, file, orig,
          config, upd>>

storeVars == <<tableCols, legacyRows, entries, seq, views, viewSeq>>
histVars == <<assigned, expected, bootClean>>
mergeVars == <<mSchema, mDoc, mOut>>
rtVars == <<file, orig>>
extVars == <<config, upd>>

-----------------------------------------------------------------------------
(* Bounds of the model.                                                    *)

\* the largest entry id the model lets the autoincrement counter reach
MaxId == 3
\* the largest view id
MaxViewId == 2
\* the last insert of an import that the model lets fail
MaxFailAt == 3
\* the longest schema of the merge harness
MaxFields == 2
\* the most rows of a legacy table
MaxLegacyRows == 2

-----------------------------------------------------------------------------
(* JSON text.  A text is a JSON value, or Garbage: text that does not      *)
(* parse.  Objects are functions from keys to JSON values.                 *)

JNull == [t |-> "null"]
JNum(n) == [t |-> "num", n |-> n]
JStr(s) == [t |-> "str", s |-> s]
JBool(b) == [t |-> "bool", b |-> b]
JArr(a) == [t |-> "arr", a |-> a]
JObj(o) == [t |-> "obj", o |-> o]
Garbage(s) == [t |-> "garbage", s |-> s]

(* Go values held in an interface{}.  A map[string]interface{} is a        *)
(* function from keys to such values, or NilMap.                           *)

GNil == [g |-> "nil"]
GInt(n) == [g |-> "int", n |-> n]
GFloat(n) == [g |-> "float64", n |-> n]
GString(s) == [g |-> "string", s |-> s]
GBool(b) == [g |-> "bool", b |-> b]
GStrs(a) == [g |-> "[]string", a |-> a]
GNilStrs == [g |-> "[]string(nil)"]
GList(a) == [g |-> "[]interface{}", a |-> a]
GMap(o) == [g |-> "map", o |-> o]
NilMap == [g |-> "map(nil)"]

EmptyMap == [k \in {} |-> GNil]

\* the elements of a []string, nil or not
StrsOf(c) == IF c = GNilStrs THEN <<>> ELSE c.a

\* json.Marshal of a value held in an interface{}
RECURSIVE MarshalV(_)
MarshalV(g) ==
    CASE g.g = "nil" -> JNull
      [] g.g = "int" -> JNum(g.n)
      [] g.g = "float64" -> JNum(g.n)
      [] g.g = "string" -> JStr(g.s)
      [] g.g = "bool" -> JBool(g.b)
      [] g.g = "[]string" -> JArr([i \in DOMAIN g.a |-> JStr(g.a[i])])
      [] g.g = "[]string(nil)" -> JNull
      [] g.g = "[]interface{}" -> JArr([i \in DOMAIN g.a |-> MarshalV(g.a[i])])
      [] g.g = "map" -> JObj([k \in DOMAIN g.o |-> MarshalV(g.o[k])])
      [] g.g = "map(nil)" -> JNull

\* json.Marshal of a map[string]interface{}
MarshalDoc(m) ==
    IF m = NilMap THEN JNull ELSE JObj([k \in DOMAIN m |-> MarshalV(m[k])])

\* json.Unmarshal into an interface{}
RECURSIVE UnmarshalV(_)
UnmarshalV(j) ==
    CASE j.t = "null" -> GNil
      [] j.t = "num" -> GFloat(j.n)
      [] j.t = "str" -> GString(j.s)
      [] j.t = "bool" -> GBool(j.b)
      [] j.t = "arr" -> GList([i \in DOMAIN j.a |-> UnmarshalV(j.a[i])])
      [] j.t = "obj" -> GMap([k \in DOMAIN j.o |-> UnmarshalV(j.o[k])])

\* json.Unmarshal of a text into a nil map[string]interface{}: the error and the map
UnmarshalDoc(text) ==
    CASE text.t = "obj" ->
             [err |-> FALSE, m |-> [k \in DOMAIN text.o |-> UnmarshalV(text.o[k])]]
      [] text.t = "null" -> [err |-> FALSE, m |-> NilMap]
      [] OTHER -> [err |-> TRUE, m |-> NilMap]

\* json.Unmarshal of a text into a []map[string]interface{}: the error and the maps
UnmarshalDocs(text) ==
    CASE text.t = "null" -> [err |-> FALSE, docs |-> <<>>]
      [] text.t = "arr" ->
             IF \A i \in DOMAIN text.a : text.a[i].t \in {"obj", "null"}
             THEN [err |-> FALSE,
                   docs |-> [i \in DOMAIN text.a |-> UnmarshalDoc(text.a[i]).m]]
             ELSE [err |-> TRUE, docs |-> <<>>]
      [] OTHER -> [err |-> TRUE, docs |-> <<>>]

\* json.Unmarshal of a text into a nil []string: the error and the slice
UnmarshalStrs(text) ==
    CASE text.t = "null" -> [err |-> FALSE, s |-> GNilStrs]
      [] text.t = "arr" ->
             IF \A i \in DOMAIN text.a : text.a[i].t = "str"
             THEN [err |-> FALSE, s |-> GStrs([i \in DOMAIN text.a |-> text.a[i].s])]
             ELSE [err |-> TRUE, s |-> GNilStrs]
      [] OTHER -> [err |-> TRUE, s |-> GNilStrs]

-----------------------------------------------------------------------------
(* The schema and mergeWithSchema.                                         *)

FieldDef(name, type) == [Name |-> name, Type |-> type]

\* the default that getEmptyRowFromSchema stores for a field of type ty
ZeroOf(ty) ==
    CASE ty = "int" -> GInt(0)
      [] ty = "string" -> GString("")
      [] ty = "[]string" -> GStrs(<<>>)
      [] OTHER -> GString("")

FieldNames(schema) == {schema[i].Name : i \in DOMAIN schema}

\* the last field of the schema that has this name: the loop's later store wins
LastField(schema, name) ==
    schema[CHOOSE i \in DOMAIN schema :
              /\ schema[i].Name = name
              /\ \A j \in DOMAIN schema : schema[j].Name = name => j <= i]

getEmptyRowFromSchema(schema) ==
    [k \in FieldNames(schema) |-> ZeroOf(LastField(schema, k).Type)]

\* a merge that returns only the schema's fields of a document that has them all
mergeWithSchemaFastPath(schema, data) ==
    LET m == getEmptyRowFromSchema(schema) IN
    IF data = NilMap THEN m
    ELSE IF DOMAIN m \subseteq DOMAIN data
         THEN [k \in DOMAIN m |-> data[k]]
         ELSE [k \in DOMAIN m \cup DOMAIN data |->
                  IF k \in DOMAIN data THEN data[k] ELSE m[k]]

\* a merge in which the schema's defaults overwrite the document
mergeWithSchemaDefaultsWin(schema, data) ==
    LET m == getEmptyRowFromSchema(schema) IN
    IF data = NilMap THEN m
    ELSE [k \in DOMAIN m \cup DOMAIN data |->
             IF k \in DOMAIN m THEN m[k] ELSE data[k]]

mergeWithSchema(schema, data) ==
    LET m == getEmptyRowFromSchema(schema) IN
    IF data = NilMap THEN m
    ELSE [k \in DOMAIN m \cup DOMAIN data |->
             IF k \in DOMAIN data THEN data[k] ELSE m[k]]

-----------------------------------------------------------------------------
(* The tables.  Rows are kept in ascending id order, as the queries of     *)
(* db.go read them (ORDER BY id).                                          *)

DocCols == <<"id", "data">>

Max(a, b) == IF a >= b THEN a ELSE b

RowIds(rows) == {rows[i].id : i \in DOMAIN rows}

MaxRowId(rows) == IF rows = <<>> THEN 0 ELSE rows[Len(rows)].id

RowOf(rows, id) == rows[CHOOSE i \in DOMAIN rows : rows[i].id = id]

\* the rows with row r put at its place in id order
SortedInsert(rows, r) ==
    SelectSeq(rows, LAMBDA x : x.id < r.id) \o <<r>> \o
    SelectSeq(rows, LAMBDA x : x.id > r.id)

\* an id column without AUTOINCREMENT: one more than the largest id present
SqlInsertRowidOnly(rows, sq, text) ==
    LET id == MaxRowId(rows) + 1 IN
    [rows |-> Append(rows, [id |-> id, data |-> text]), seq |-> sq, id |-> id,
     err |-> FALSE]

\* INSERT INTO t(data) VALUES(?) on a table whose id is INTEGER PRIMARY KEY
\* AUTOINCREMENT: one more than the largest id the table has ever held
SqlInsert(rows, sq, text) ==
    LET id == Max(sq, MaxRowId(rows)) + 1 IN
    [rows |-> Append(rows, [id |-> id, data |-> text]), seq |-> id, id |-> id,
     err |-> FALSE]

\* INSERT INTO t(id, data) VALUES(?, ?): fails on an id that is present
SqlInsertId(rows, sq, id, text) ==
    IF id \in RowIds(rows)
    THEN [rows |-> rows, seq |-> sq, id |-> 0, err |-> TRUE]
    ELSE [rows |-> SortedInsert(rows, [id |-> id, data |-> text]),
          seq |-> Max(sq, id), id |-> id, err |-> FALSE]

\* the string a Go variable holds after scanning a text that is not JSON
RawOf(text) == text.s

-----------------------------------------------------------------------------
(* The Document Store functions of db.go, on the rows and the sequence.    *)
(* ioFail is the database refusing the statement (db.Exec returns an       *)
(* error).                                                                 *)

ErrNil == "nil"
ErrNoRows == "sql: no rows in result set"
ErrIO == "database error"
ErrPanic == "panic: assignment to entry in nil map"
ErrFormat == "unknown import format"
ErrJSON == "json error"

insertRow(rows, sq, data, ioFail) ==
    LET js == MarshalDoc(data) IN
    IF ioFail
    THEN [rows |-> rows, seq |-> sq, id |-> 0, err |-> ErrIO]
    ELSE LET r == SqlInsert(rows, sq, js) IN
         [rows |-> r.rows, seq |-> r.seq, id |-> r.id, err |-> ErrNil]

\* a listing that skips the rows whose text does not parse
getAllRowsDropCorrupt(rows) ==
    LET ok == SelectSeq(rows, LAMBDA r : ~UnmarshalDoc(r.data).err) IN
    [i \in DOMAIN ok |-> [ID |-> ok[i].id, Data |-> UnmarshalDoc(ok[i].data).m]]

getAllRows(rows) ==
    [i \in DOMAIN rows |->
        LET u == UnmarshalDoc(rows[i].data) IN
        [ID |-> rows[i].id,
         Data |-> IF u.err THEN [k \in {"_raw"} |-> GString(RawOf(rows[i].data))]
                  ELSE u.m]]

\* the map with key k set to v
SetKey(m, k, v) == [x \in DOMAIN m \cup {k} |-> IF x = k THEN v ELSE m[x]]

\* the rows with the text of row id replaced (UPDATE ... WHERE id = ?)
SqlUpdate(rows, id, text) ==
    [i \in DOMAIN rows |->
        IF rows[i].id = id THEN [id |-> id, data |-> text] ELSE rows[i]]

\* an update that inserts the row it does not find
updateFieldUpsert(rows, id, field, value) ==
    IF id \notin RowIds(rows)
    THEN [rows |-> SortedInsert(rows, [id |-> id,
                       data |-> MarshalDoc(SetKey(EmptyMap, field, value))]),
          err |-> ErrNil]
    ELSE [rows |-> rows, err |-> ErrNil]

updateField(rows, id, field, value) ==
    IF id \notin RowIds(rows)
    THEN [rows |-> rows, err |-> ErrNoRows]
    ELSE LET u == UnmarshalDoc(RowOf(rows, id).data)
             m == IF u.err THEN EmptyMap ELSE u.m
         IN  IF m = NilMap
             THEN [rows |-> rows, err |-> ErrPanic]
             ELSE [rows |-> SqlUpdate(rows, id, MarshalDoc(SetKey(m, field, value))),
                   err |-> ErrNil]

deleteRow(rows, id) == SelectSeq(rows, LAMBDA r : r.id # id)

\* a replace that merges the new document into the stored one
replaceRowMerging(rows, id, data) ==
    [i \in DOMAIN rows |->
        IF rows[i].id = id /\ rows[i].data.t = "obj" /\ data # NilMap
        THEN [id |-> id,
              data |-> JObj([k \in DOMAIN rows[i].data.o \cup DOMAIN data |->
                               IF k \in DOMAIN data THEN MarshalV(data[k])
                               ELSE rows[i].data.o[k]])]
        ELSE IF rows[i].id = id THEN [id |-> id, data |-> MarshalDoc(data)]
        ELSE rows[i]]

replaceRow(rows, id, data) == SqlUpdate(rows, id, MarshalDoc(data))

\* an export helper that returns the document without the id
attachIDToDataMapOmitted(id, data) == data

attachIDToDataMap(id, data) == SetKey(data, "ID", GInt(id))

-----------------------------------------------------------------------------
(* The View Manager functions of db.go.  A []string is GStrs(a) or the nil *)
(* slice GNilStrs.                                                         *)

insertView(vrows, vsq, name, cols, ioFail) ==
    LET js == MarshalV(cols)
        id == Max(vsq, MaxRowId(vrows)) + 1
    IN  IF ioFail
        THEN [rows |-> vrows, seq |-> vsq, id |-> 0, err |-> ErrIO]
        ELSE [rows |-> Append(vrows, [id |-> id, name |-> name, data |-> js]),
              seq |-> id, id |-> id, err |-> ErrNil]

getAllViews(vrows) ==
    [i \in DOMAIN vrows |->
        LET u == UnmarshalStrs(vrows[i].data) IN
        [ID |-> vrows[i].id, Name |-> vrows[i].name,
         Columns |-> IF u.err THEN GStrs(<<>>) ELSE u.s]]

\* an import that leaves the views it finds in the table
deleteAllViewsKeep(vrows) == vrows

deleteAllViews(vrows) == <<>>

-----------------------------------------------------------------------------
(* The "Save file" and "Open file" handlers of the UI.                      *)

\* the buffer "Save file" writes: json.MarshalIndent of {entries, views}
ExportFile(schema, rows, vrows) ==
    LET listing == getAllRows(rows)
        vs == getAllViews(vrows)
        ents == [i \in DOMAIN listing |->
                    MarshalDoc(attachIDToDataMap(listing[i].ID,
                                   mergeWithSchema(schema, listing[i].Data)))]
        exportedViews ==
            [i \in DOMAIN vs |->
                JObj([k \in {"Name", "Columns"} |->
                        IF k = "Name" THEN JStr(vs[i].Name)
                        ELSE MarshalV(vs[i].Columns)])]
    IN  JObj([k \in {"entries", "views"} |->
                IF k = "entries"
                THEN (IF ents = <<>> THEN JNull ELSE JArr(ents))
                ELSE (IF exportedViews = <<>> THEN JNull ELSE JArr(exportedViews))])

\* one element of the views array decoded into struct{Name string; Columns []string}
DecodeView(e) ==
    IF e.t # "obj" THEN [Name |-> "", Columns |-> GNilStrs]
    ELSE [Name |-> IF "Name" \in DOMAIN e.o /\ e.o["Name"].t = "str"
                   THEN e.o["Name"].s ELSE "",
          Columns |-> IF "Columns" \in DOMAIN e.o
                      THEN UnmarshalStrs(e.o["Columns"]).s ELSE GNilStrs]

\* the views value decoded with its error ignored: anything but an array leaves nil
DecodeViews(j) ==
    IF j.t = "arr" THEN [i \in DOMAIN j.a |-> DecodeView(j.a[i])] ELSE <<>>

\* an import loop that goes on after an insert that failed
RECURSIVE ImportDocsGoOn(_, _, _, _, _)
ImportDocsGoOn(schema, docs, acc, k, failAt) ==
    IF docs = <<>> THEN acc
    ELSE LET merged == mergeWithSchema(schema, Head(docs))
             r == insertRow(acc.rows, acc.seq, merged, k = failAt)
         IN  ImportDocsGoOn(schema, Tail(docs),
                 IF r.err # ErrNil THEN [acc EXCEPT !.err = r.err]
                 ELSE [rows |-> r.rows, seq |-> r.seq,
                       ids |-> Append(acc.ids, r.id), err |-> acc.err],
                 k + 1, failAt)

\* the import loop over the documents: insert k fails when k = failAt
RECURSIVE ImportDocs(_, _, _, _, _)
ImportDocs(schema, docs, acc, k, failAt) ==
    IF docs = <<>> THEN acc
    ELSE LET merged == mergeWithSchema(schema, Head(docs))
             r == insertRow(acc.rows, acc.seq, merged, k = failAt)
         IN  IF r.err # ErrNil
             THEN [acc EXCEPT !.err = r.err]
             ELSE ImportDocs(schema, Tail(docs),
                             [rows |-> r.rows, seq |-> r.seq,
                              ids |-> Append(acc.ids, r.id), err |-> ErrNil],
                             k + 1, failAt)

\* the import loop over the views
RECURSIVE ImportViews(_, _, _, _)
ImportViews(vs, acc, k, failAt) ==
    IF vs = <<>> THEN acc
    ELSE LET r == insertView(acc.rows, acc.seq, Head(vs).Name, Head(vs).Columns,
                             k = failAt)
         IN  IF r.err # ErrNil
             THEN [acc EXCEPT !.err = r.err]
             ELSE ImportViews(Tail(vs), [rows |-> r.rows, seq |-> r.seq, err |-> ErrNil],
                              k + 1, failAt)

\* an import that leaves the entries it finds in the table
ClearEntriesKeep(rows) == rows

\* DELETE FROM entries
ClearEntries(rows) == <<>>

\* the "Open file" handler on a buffer: the tables after it, the ids its inserts
\* returned and the error it showed.  Insert number failAt fails (0: none),
\* counting the entries and then the views.
OpenFile(schema, rows, sq, vrows, vsq, data, failAt) ==
    LET same == [rows |-> rows, seq |-> sq, views |-> vrows, viewSeq |-> vsq,
                 ids |-> <<>>, err |-> ErrJSON]
        cleared == [same EXCEPT !.rows = ClearEntries(rows)]
    IN
    IF data.t = "garbage" THEN same
    ELSE IF data.t = "arr"
    THEN LET u == UnmarshalDocs(data) IN
         IF u.err THEN cleared
         ELSE LET e == ImportDocs(schema, u.docs,
                                  [rows |-> ClearEntries(rows), seq |-> sq, ids |-> <<>>,
                                   err |-> ErrNil],
                                  1, failAt)
              IN  [rows |-> e.rows, seq |-> e.seq, views |-> vrows, viewSeq |-> vsq,
                   ids |-> e.ids, err |-> e.err]
    ELSE IF data.t = "obj"
    THEN LET hasE == "entries" \in DOMAIN data.o
             u == IF hasE THEN UnmarshalDocs(data.o["entries"])
                  ELSE [err |-> FALSE, docs |-> <<>>]
         IN
         IF u.err THEN cleared
         ELSE LET e == ImportDocs(schema, u.docs,
                                  [rows |-> ClearEntries(rows), seq |-> sq, ids |-> <<>>,
                                   err |-> ErrNil],
                                  1, failAt)
              IN
              IF e.err # ErrNil \/ "views" \notin DOMAIN data.o
              THEN [rows |-> e.rows, seq |-> e.seq, views |-> vrows, viewSeq |-> vsq,
                    ids |-> e.ids, err |-> e.err]
              ELSE LET vs == DecodeViews(data.o["views"])
                       v == ImportViews(vs, [rows |-> deleteAllViews(vrows), seq |-> vsq,
                                             err |-> ErrNil],
                                        Len(u.docs) + 1, failAt)
                   IN  [rows |-> e.rows, seq |-> e.seq, views |-> v.rows,
                        viewSeq |-> v.seq, ids |-> e.ids, err |-> v.err]
    ELSE [cleared EXCEPT !.err = ErrFormat]

-----------------------------------------------------------------------------
(* initializeDB and its migration of a legacy entries table.  A legacy row *)
(* is [id |-> v, vals |-> column -> v] with v a value as the driver scans  *)
(* it into an interface{}.                                                 *)

SqlNull == [q |-> "nil"]
SqlInt(n) == [q |-> "int64", n |-> n]
SqlText(s) == [q |-> "string", s |-> s]
SqlBlob(s) == [q |-> "[]byte", s |-> s]

HasCol(cols, c) == \E i \in DOMAIN cols : cols[i] = c

\* the id the migration reads from the id column (an integer or NULL)
IdOf(v) == IF v.q = "int64" THEN v.n ELSE 0

\* the document value the migration stores for a column value
Coerce(v) ==
    CASE v.q = "nil" -> GNil
      [] v.q = "int64" -> GInt(v.n)
      [] v.q = "[]byte" -> GString(v.s)
      [] v.q = "string" -> GString(v.s)

\* a migration that lets the new table number every row
MigrateRowRenumber(acc, row) ==
    LET m == [c \in DOMAIN row.vals |-> Coerce(row.vals[c])]
        r == SqlInsert(acc.rows, acc.seq, MarshalDoc(m))
    IN  [rows |-> r.rows, seq |-> r.seq]

\* one turn of the migration loop: the row's document goes into entries_new,
\* under its own id when that is positive; a failed insert skips the row
MigrateRow(acc, row) ==
    LET m == [c \in DOMAIN row.vals |-> Coerce(row.vals[c])]
        js == MarshalDoc(m)
        idInt == IdOf(row.id)
        r == IF idInt > 0 THEN SqlInsertId(acc.rows, acc.seq, idInt, js)
             ELSE SqlInsert(acc.rows, acc.seq, js)
    IN  IF r.err THEN acc ELSE [rows |-> r.rows, seq |-> r.seq]

RECURSIVE Migrate(_, _)
Migrate(lrows, acc) ==
    IF lrows = <<>> THEN acc
    ELSE Migrate(Tail(lrows), MigrateRow(acc, Head(lrows)))

\* an initialization that sets the id sequence to the largest id present
initializeDBResync(cols, lrows, rows, sq) ==
    IF HasCol(cols, "data")
    THEN [cols |-> cols, legacy |-> lrows, rows |-> rows, seq |-> MaxRowId(rows),
          migrated |-> FALSE]
    ELSE LET acc == Migrate(lrows, [rows |-> <<>>, seq |-> 0]) IN
         [cols |-> DocCols, legacy |-> <<>>, rows |-> acc.rows, seq |-> acc.seq,
          migrated |-> cols # <<>>]

\* the tables after initializeDB: cols, legacy, rows, seq, and whether it migrated
initializeDB(cols, lrows, rows, sq) ==
    LET cols1 == IF cols = <<>> THEN DocCols ELSE cols
        hasData == HasCol(cols1, "data")
    IN  IF ~hasData /\ Len(cols1) > 0
        THEN IF ~HasCol(cols1, "id")
             THEN [cols |-> cols1, legacy |-> lrows, rows |-> rows, seq |-> sq,
                   migrated |-> FALSE]
             ELSE LET acc == Migrate(lrows, [rows |-> <<>>, seq |-> 0])
                      maxID == MaxRowId(acc.rows)
                  IN  [cols |-> DocCols, legacy |-> <<>>, rows |-> acc.rows,
                       seq |-> IF acc.rows # <<>> THEN maxID ELSE acc.seq,
                       migrated |-> TRUE]
        ELSE [cols |-> cols1, legacy |-> lrows, rows |-> rows, seq |-> sq,
              migrated |-> FALSE]

-----------------------------------------------------------------------------
(* The inputs of the model.                                                *)

\* the schema that main loads and hands to the UI
Schema == <<FieldDef("Title", "string"), FieldDef("Tags", "[]string")>>

\* documents handed to insertRow and replaceRow
InsertPool ==
    { getEmptyRowFromSchema(Schema),
      [k \in {"X"} |-> GInt(5)] }

\* fields and values handed to updateField
UpdateKeys == {"Title"}
UpdateValues == {GString("Report")}

\* texts a data column holds when the program starts
BootTexts == {MarshalDoc(getEmptyRowFromSchema(Schema)), Garbage("oops"), JNull}

\* databases on disk when the program starts: none, the document layout, a legacy layout
BootStores ==
    {[cols |-> <<>>, legacy |-> <<>>, rows |-> <<>>, seq |-> 0]}
    \cup {[cols |-> DocCols, legacy |-> <<>>, rows |-> <<[id |-> i, data |-> t]>>, seq |-> q] :
             i \in 1..2, t \in BootTexts, q \in {2}}
    \cup {[cols |-> <<"id", "a">>, legacy |-> <<[id |-> SqlInt(2), vals |-> [a |-> SqlText("x")]]>>,
           rows |-> <<>>, seq |-> 0]}

LegacyMaxId(lrows) ==
    IF lrows = <<>> THEN 0
    ELSE LET n == Len(lrows) IN
         CHOOSE m \in {0} \cup {IdOf(lrows[i].id) : i \in 1..n} :
             \A i \in 1..n : IdOf(lrows[i].id) <= m

\* the record of a call: val is the value it was given, or the value it returned
Res(op, id, key, err, ids) ==
    [op |-> op, id |-> id, key |-> key, err |-> err, ids |-> ids, val |-> GNil]

\* the JSON contents of a listing, by id
Contents(listing) ==
    [id \in {listing[i].ID : i \in DOMAIN listing} |->
        MarshalDoc((CHOOSE r \in {listing[i] : i \in DOMAIN listing} : r.ID = id).Data)]

HarnessIdle ==
    /\ mSchema = <<>> /\ mDoc = NilMap /\ mOut = <<>>
    /\ file = JNull /\ orig = <<>>
    /\ config = <<>> /\ upd = <<>>

Init ==
    /\ pc = "boot"
    /\ \E b \in BootStores :
         /\ tableCols = b.cols /\ legacyRows = b.legacy
         /\ entries = b.rows /\ seq = b.seq
         /\ assigned = Max(Max(b.seq, MaxRowId(b.rows)), LegacyMaxId(b.legacy))
    /\ views = <<>> /\ viewSeq = 0
    /\ result = Res("start", 0, "", ErrNil, <<>>)
    /\ expected = <<>> /\ bootClean = TRUE
    /\ HarnessIdle

\* main: initializeDB runs before any other access
InitializeDB ==
    /\ pc = "boot"
    /\ LET r == initializeDB(tableCols, legacyRows, entries, seq) IN
       /\ tableCols' = r.cols /\ legacyRows' = r.legacy
       /\ entries' = r.rows /\ seq' = r.seq
       /\ assigned' = Max(assigned, MaxRowId(r.rows))
       /\ expected' = Contents(getAllRows(r.rows))
       /\ bootClean' = \A i \in DOMAIN r.rows : r.rows[i].data.t = "obj"
       /\ result' = Res("initializeDB", 0, IF r.migrated THEN "migrated" ELSE "", ErrNil, <<>>)
    /\ pc' = "ready"
    /\ UNCHANGED <<views, viewSeq, mergeVars, rtVars, extVars>>

\* the process ends (the window is closed, or a panic ended it) and is started again
Restart ==
    /\ pc \in {"ready", "crashed"}
    /\ pc' = "boot"
    /\ result' = Res("exit", 0, "", ErrNil, <<>>)
    /\ UNCHANGED <<storeVars, histVars, mergeVars, rtVars, extVars>>

Usable == pc = "ready" /\ HasCol(tableCols, "data")

InsertDocument ==
    /\ Usable
    /\ seq < MaxId
    /\ \E doc \in InsertPool, ioFail \in BOOLEAN :
         LET r == insertRow(entries, seq, doc, ioFail) IN
         /\ entries' = r.rows /\ seq' = r.seq
         /\ result' = [Res("insertRow", r.id, "", r.err,
                           IF r.err = ErrNil THEN <<r.id>> ELSE <<>>) EXCEPT !.val = doc]
         /\ assigned' = IF r.err = ErrNil THEN Max(assigned, r.id) ELSE assigned
         /\ expected' = IF r.err = ErrNil THEN SetKey(expected, r.id, MarshalDoc(doc))
                        ELSE expected
    /\ UNCHANGED <<pc, tableCols, legacyRows, views, viewSeq, bootClean, mergeVars, rtVars, extVars>>

\* the content a field update is to leave, given the content before it
ContentWith(old, key, jv) ==
    IF old.t = "obj" THEN JObj(SetKey(old.o, key, jv))
    ELSE JObj([k \in {key} |-> jv])

UpdateField ==
    /\ Usable
    /\ \E id \in 1..MaxId, key \in UpdateKeys, value \in UpdateValues :
         LET r == updateField(entries, id, key, value) IN
         /\ entries' = r.rows
         /\ pc' = IF r.err = ErrPanic THEN "crashed" ELSE pc
         /\ result' = [Res("updateField", id, key, r.err, <<>>) EXCEPT !.val = value]
         /\ expected' = IF r.err = ErrNil
                        THEN [expected EXCEPT ![id] = ContentWith(@, key, MarshalV(value))]
                        ELSE expected
    /\ UNCHANGED <<tableCols, legacyRows, seq, views, viewSeq, assigned, bootClean,
                   mergeVars, rtVars, extVars>>

DeleteDocument ==
    /\ Usable
    /\ \E id \in 1..MaxId :
         /\ entries' = deleteRow(entries, id)
         /\ result' = Res("deleteRow", id, "", ErrNil, <<>>)
         /\ expected' = [i \in DOMAIN expected \ {id} |-> expected[i]]
    /\ UNCHANGED <<pc, tableCols, legacyRows, seq, views, viewSeq, assigned, bootClean,
                   mergeVars, rtVars, extVars>>

ReplaceDocument ==
    /\ Usable
    /\ \E id \in 1..MaxId, doc \in InsertPool :
         /\ entries' = replaceRow(entries, id, doc)
         /\ result' = [Res("replaceRow", id, "", ErrNil, <<>>) EXCEPT !.val = doc]
         /\ expected' = IF id \in DOMAIN expected
                        THEN [expected EXCEPT ![id] = MarshalDoc(doc)]
                        ELSE expected
    /\ UNCHANGED <<pc, tableCols, legacyRows, seq, views, viewSeq, assigned, bootClean,
                   mergeVars, rtVars, extVars>>

\* buffers handed to "Open file"
FileDocA == JObj([k \in {"Title"} |-> JStr("A")])
FileViewV ==
    JObj([k \in {"Name", "Columns"} |->
            IF k = "Name" THEN JStr("v") ELSE JArr(<<JStr("Title")>>)])
FileViewW == JObj([k \in {"Name"} |-> JStr("w")])
FilePool ==
    { JArr(<<FileDocA>>),
      JArr(<<FileDocA, JNull>>),
      JArr(<<JNum(1)>>),
      JObj([k \in {"entries", "views"} |->
              IF k = "entries" THEN JArr(<<FileDocA>>) ELSE JArr(<<FileViewV, FileViewW>>)]),
      JObj([k \in {"entries"} |-> JArr(<<FileDocA, FileDocA>>)]),
      JObj([k \in {"entries"} |-> JStr("A")]),
      JObj([k \in {"views"} |-> JNull]),
      JNum(5), JNull,
      Garbage("oops") }

\* the number of inserts an import of this buffer comes to make when none fails
InsertsOf(data) ==
    CASE data.t = "arr" ->
            IF UnmarshalDocs(data).err THEN 0 ELSE Len(data.a)
      [] data.t = "obj" ->
            LET hasE == "entries" \in DOMAIN data.o
                u == IF hasE THEN UnmarshalDocs(data.o["entries"])
                     ELSE [err |-> FALSE, docs |-> <<>>]
            IN  IF u.err THEN 0
                ELSE Len(u.docs)
                     + (IF "views" \in DOMAIN data.o
                        THEN Len(DecodeViews(data.o["views"])) ELSE 0)
      [] OTHER -> 0

\* the contents the imported documents are to have, by the ids the inserts returned
ImportedContents(ids, docs) ==
    [id \in {ids[i] : i \in DOMAIN ids} |->
        MarshalDoc(mergeWithSchema(Schema,
            docs[CHOOSE i \in DOMAIN ids : ids[i] = id]))]

\* the documents of a buffer, in input order (none when it holds none)
DocsOf(data) ==
    CASE data.t = "arr" -> UnmarshalDocs(data).docs
      [] data.t = "obj" ->
            IF "entries" \in DOMAIN data.o THEN UnmarshalDocs(data.o["entries"]).docs
            ELSE <<>>
      [] OTHER -> <<>>

\* the toolbar's "Open file": a destructive import of a buffer of the pool
ImportFrom(pool) ==
    /\ Usable
    /\ \E data \in pool, failAt \in 0..MaxFailAt :
         LET r == OpenFile(Schema, entries, seq, views, viewSeq, data, failAt) IN
         /\ failAt <= InsertsOf(data)
         /\ r.seq <= MaxId /\ r.viewSeq <= MaxViewId
         /\ entries' = r.rows /\ seq' = r.seq
         /\ views' = r.views /\ viewSeq' = r.viewSeq
         /\ result' = [Res("import", failAt, data.t, r.err, r.ids) EXCEPT !.val = data]
         /\ assigned' = IF r.ids = <<>> THEN assigned
                        ELSE Max(assigned, r.ids[Len(r.ids)])
         /\ expected' = IF data.t = "garbage" THEN expected
                        ELSE ImportedContents(r.ids, DocsOf(data))
    /\ UNCHANGED <<pc, tableCols, legacyRows, bootClean, mergeVars, rtVars, extVars>>

Import == ImportFrom(FilePool)

\* the toolbar's "New DB": the database file is removed, initializeDB makes a
\* fresh one, one blank row is inserted and the views are cleared
NewDB ==
    /\ Usable
    /\ \E ioFail \in BOOLEAN :
         LET d == initializeDB(<<>>, <<>>, <<>>, 0)
             r == insertRow(d.rows, d.seq, getEmptyRowFromSchema(Schema), ioFail)
         IN
         /\ tableCols' = d.cols /\ legacyRows' = d.legacy
         /\ entries' = r.rows /\ seq' = r.seq
         /\ views' = deleteAllViews(<<>>) /\ viewSeq' = 0
         /\ result' = Res("newDB", r.id, "", r.err,
                          IF r.err = ErrNil THEN <<r.id>> ELSE <<>>)
         /\ assigned' = r.id
         /\ expected' = Contents(getAllRows(r.rows))
         /\ bootClean' = TRUE
    /\ UNCHANGED <<pc, mergeVars, rtVars, extVars>>

\* the grid is repopulated: getAllRows reads the whole table
ListDocuments ==
    /\ Usable
    /\ result' = [Res("getAllRows", 0, "", ErrNil, <<>>) EXCEPT !.val = getAllRows(entries)]
    /\ UNCHANGED <<pc, storeVars, histVars, mergeVars, rtVars, extVars>>

Next ==
    \/ InitializeDB
    \/ Restart
    \/ InsertDocument
    \/ UpdateField
    \/ DeleteDocument
    \/ ReplaceDocument
    \/ Import
    \/ NewDB
    \/ ListDocuments

Spec == Init /\ [][Next]_vars

-----------------------------------------------------------------------------
(* Properties of the Document Store.                                       *)

Ascending(ids) == \A i, j \in DOMAIN ids : i < j => ids[i] < ids[j]

ListingIds(listing) == [i \in DOMAIN listing |-> listing[i].ID]

\* C6: every id that an insertRow call or an import returns is larger than every
\* entry id the store has assigned before (also an id whose entry was deleted,
\* the largest one included), and the ids of one import increase in input order.
C6_IdsNeverReused ==
    [][ result'.op \in {"insertRow", "import"} =>
          /\ Ascending(result'.ids)
          /\ \A i \in DOMAIN result'.ids : result'.ids[i] > assigned ]_vars

\* C6 witness: an insert has returned an id above 1 into a table whose earlier
\* entries, the one with the largest id included, have all been deleted.
C6_Witness ==
    /\ result.op = "insertRow" /\ result.err = ErrNil
    /\ RowIds(entries) = {result.id}
    /\ result.id >= 2

\* C7: once the store is open on a table of JSON objects, getAllRows returns the
\* entries inserted and not deleted, in ascending id order, each with the
\* content last written to its id by insertRow, replaceRow, updateField or import.
C7_ReadAfterWrite ==
    (pc # "boot" /\ bootClean) =>
        LET listing == getAllRows(entries) IN
        /\ Ascending(ListingIds(listing))
        /\ {listing[i].ID : i \in DOMAIN listing} = DOMAIN expected
        /\ \A i \in DOMAIN listing :
              MarshalDoc(listing[i].Data) = expected[listing[i].ID]

\* C7 witness: a replaceRow has overwritten one of two listed entries.
C7_Witness ==
    /\ bootClean /\ result.op = "replaceRow"
    /\ result.id \in RowIds(entries)
    /\ Len(entries) = 2
    /\ \E i \in DOMAIN entries : entries[i].data # MarshalDoc(result.val)

\* C8: the listing that getAllRows returns has one entry per row, in row order;
\* the entry of a row whose text is not JSON has that row's id and a document
\* whose only key, _raw, holds the text unchanged; the entries of the other rows
\* are the ones a table without the corrupt rows lists.
C8_CorruptRowListed ==
    result.op = "getAllRows" =>
        LET listing == result.val
            good(r) == r.data.t # "garbage"
            goodIds == {entries[i].id : i \in {j \in DOMAIN entries : good(entries[j])}}
        IN
        /\ Len(listing) = Len(entries)
        /\ \A i \in DOMAIN entries :
              /\ listing[i].ID = entries[i].id
              /\ ~good(entries[i]) =>
                    /\ DOMAIN listing[i].Data = {"_raw"}
                    /\ listing[i].Data["_raw"] = GString(entries[i].data.s)
        /\ SelectSeq(listing, LAMBDA e : e.ID \in goodIds)
              = getAllRows(SelectSeq(entries, good))

\* C8 witness: a listing of a table that holds a corrupt row and a JSON row.
C8_Witness ==
    /\ result.op = "getAllRows"
    /\ \E i, j \in DOMAIN entries :
          entries[i].data.t = "garbage" /\ entries[j].data.t = "obj"

\* the listed document of entry id
ListedDoc(rows, id) ==
    LET listing == getAllRows(rows) IN
    (CHOOSE e \in {listing[i] : i \in DOMAIN listing} : e.ID = id).Data

\* C9 as claimed: an updateField that succeeds on an existing entry leaves the
\* listed document of that entry with the field set to the value and every other
\* key as it was, and leaves every other entry and every view unchanged.
C9_UpdateFieldFrame ==
    [][ (result'.op = "updateField" /\ result'.err = ErrNil) =>
          LET id == result'.id
              before == ListedDoc(entries, id)
              after == ListedDoc(entries', id)
          IN
          /\ RowIds(entries') = RowIds(entries)
          /\ MarshalV(after[result'.key]) = MarshalV(result'.val)
          /\ DOMAIN after = DOMAIN before \cup {result'.key}
          /\ \A k \in DOMAIN before \ {result'.key} :
                MarshalV(after[k]) = MarshalV(before[k])
          /\ \A i \in DOMAIN entries : entries[i].id # id => entries'[i] = entries[i]
          /\ views' = views ]_vars

\* C10: updateField on an id that has no entry returns sql.ErrNoRows and leaves
\* the entries, the id sequence and the views as they were.
C10_UpdateFieldNotFound ==
    [][ (result'.op = "updateField" /\ result'.id \notin RowIds(entries)) =>
          /\ result'.err = ErrNoRows
          /\ entries' = entries /\ seq' = seq
          /\ views' = views /\ viewSeq' = viewSeq ]_vars

\* C10 witness: updateField has been refused on the id of a deleted entry while
\* other entries are in the table.
C10_Witness ==
    /\ result.op = "updateField" /\ result.err = ErrNoRows
    /\ result.id \notin RowIds(entries) /\ result.id <= assigned
    /\ entries # <<>>

\* C2: after an import that shows no error, of an array or of an object, the
\* table holds exactly one entry per document of the buffer, in input order,
\* each with the content of mergeWithSchema(schema, document) and so with every
\* schema field, and no entry of the table before the import is left.
C2_DestructiveImport ==
    [][ (result'.op = "import" /\ result'.err = ErrNil) =>
          LET docs == DocsOf(result'.val)
              listing == getAllRows(entries')
          IN
          /\ Len(listing) = Len(docs)
          /\ Ascending(ListingIds(listing))
          /\ \A i \in DOMAIN listing :
                /\ MarshalDoc(listing[i].Data) = MarshalDoc(mergeWithSchema(Schema, docs[i]))
                /\ FieldNames(Schema) \subseteq DOMAIN listing[i].Data
          /\ RowIds(entries') \cap RowIds(entries) = {} ]_vars

\* C2 witness: an import of two documents, the second one null, has replaced a
\* table that held an entry.
C2_Witness ==
    /\ result.op = "import" /\ result.err = ErrNil
    /\ Len(result.ids) = 2 /\ result.ids[1] >= 2
    /\ Len(entries) = 2

-----------------------------------------------------------------------------
(* mergeWithSchema on its own: the arguments are drawn from bounded sets   *)
(* and the function is applied to them, and then to its own result.        *)

MergeNames == {"A", "B", "C"}
MergeTypes == {"int", "string", "[]string", "link"}

\* the schemas of at most MaxFields fields; the loader does not reject a name
\* that is declared twice
MergeSchemas ==
    LET fields == {FieldDef(n, ty) : n \in MergeNames, ty \in MergeTypes} IN
    UNION {[1..n -> fields] : n \in 0..MaxFields}

\* documents as the callers hold them: decoded JSON, over a schema key and a
\* key outside the schema, and the nil map
MergeDocs ==
    LET vals == {GString("v"), GFloat(1), GList(<<>>)} IN
    {NilMap} \cup UNION {[K -> vals] : K \in SUBSET {"A", "X"}}

StoreIdle ==
    /\ tableCols = DocCols /\ legacyRows = <<>> /\ entries = <<>> /\ seq = 0
    /\ views = <<>> /\ viewSeq = 0
    /\ result = Res("start", 0, "", ErrNil, <<>>)
    /\ assigned = 0 /\ expected = <<>> /\ bootClean = TRUE

InitMerge ==
    /\ pc = "merge"
    /\ StoreIdle
    /\ mSchema \in MergeSchemas
    /\ mDoc \in MergeDocs
    /\ mOut = <<>>
    /\ file = JNull /\ orig = <<>>
    /\ config = <<>> /\ upd = <<>>

\* mergeWithSchema(schema, doc)
MergeOnce ==
    /\ pc = "merge" /\ mOut = <<>>
    /\ mOut' = <<mergeWithSchema(mSchema, mDoc)>>
    /\ UNCHANGED <<pc, storeVars, result, histVars, mSchema, mDoc, rtVars, extVars>>

\* mergeWithSchema(schema, the result of the first call)
MergeAgain ==
    /\ pc = "merge" /\ Len(mOut) = 1
    /\ mOut' = Append(mOut, mergeWithSchema(mSchema, mOut[1]))
    /\ UNCHANGED <<pc, storeVars, result, histVars, mSchema, mDoc, rtVars, extVars>>

NextMerge == MergeOnce \/ MergeAgain

SpecMerge == InitMerge /\ [][NextMerge]_vars

\* C4: merging the result of a merge again, against the same schema, returns
\* that result.
C4_MergeIdempotent == Len(mOut) = 2 => mOut[2] = mOut[1]

\* C4 witness: a document with a key outside the schema and without one of the
\* schema's fields has been merged twice.
C4_Witness ==
    /\ Len(mOut) = 2
    /\ mDoc # NilMap /\ "X" \in DOMAIN mDoc
    /\ \E i \in DOMAIN mSchema : mSchema[i].Name \notin DOMAIN mDoc

KeysOf(m) == IF m = NilMap THEN {} ELSE DOMAIN m

\* the JSON zero value the schema merge is to give a field of this type
JsonZero(ty) ==
    CASE ty = "int" -> JNum(0)
      [] ty = "string" -> JStr("")
      [] ty = "[]string" -> JArr(<<>>)
      [] ty = "link" -> JStr("")

\* C5 as claimed: the result of mergeWithSchema(S, D) has the schema's field
\* names and the keys of D as its keys, D's value under every key of D, and
\* under every schema field that D lacks the zero value of that field's type; D
\* is as it was.
C5_MergeResult ==
    [][ (mOut = <<>> /\ mOut' # <<>>) =>
          LET out == mOut'[1] IN
          /\ DOMAIN out = FieldNames(mSchema) \cup KeysOf(mDoc)
          /\ \A k \in KeysOf(mDoc) : out[k] = mDoc[k]
          /\ \A i \in DOMAIN mSchema :
                mSchema[i].Name \notin KeysOf(mDoc) =>
                    MarshalV(out[mSchema[i].Name]) = JsonZero(mSchema[i].Type)
          /\ mDoc' = mDoc ]_vars

\* the last field of the schema declared under a name
LastDeclared(schema, name) ==
    LET at == {i \in DOMAIN schema : schema[i].Name = name} IN
    schema[CHOOSE i \in at : \A j \in at : j <= i]

\* C5 as amended: the result of mergeWithSchema(S, D) has the schema's field
\* names and the keys of D as its keys, D's value under every key of D, and
\* under every schema field name that D lacks the zero value of the type of the
\* last field declared under that name; D is as it was.
C5_MergeResultLastDeclared ==
    [][ (mOut = <<>> /\ mOut' # <<>>) =>
          LET out == mOut'[1] IN
          /\ DOMAIN out = FieldNames(mSchema) \cup KeysOf(mDoc)
          /\ \A k \in KeysOf(mDoc) : out[k] = mDoc[k]
          /\ \A name \in FieldNames(mSchema) \ KeysOf(mDoc) :
                MarshalV(out[name]) = JsonZero(LastDeclared(mSchema, name).Type)
          /\ mDoc' = mDoc ]_vars

\* C5 witness: a schema that declares B twice, as an int and then as a list, has
\* been merged with a document that holds A and a key outside the schema.
C5_Witness ==
    /\ Len(mOut) = 1 /\ Len(mSchema) = 2
    /\ mSchema[1] = FieldDef("B", "int") /\ mSchema[2] = FieldDef("B", "[]string")
    /\ mDoc # NilMap /\ DOMAIN mDoc = {"A", "X"}

-----------------------------------------------------------------------------
(* The migration on its own: initializeDB opens a database whose entries   *)
(* table has the legacy columns (id, a, b).                                *)

LegacyCols == <<"id", "a", "b">>

\* legacy rows: the id is an integer or NULL, a is text, a blob or NULL, b is an
\* integer or NULL
LegacyRowPool ==
    {[id |-> i, vals |-> [a |-> x, b |-> y]] :
        i \in {SqlNull, SqlInt(-1), SqlInt(0), SqlInt(1), SqlInt(2)},
        x \in {SqlText("x"), SqlBlob("y"), SqlNull},
        y \in {SqlInt(5), SqlNull}}

\* the place of an id in ORDER BY id: NULL comes first
OrderKey(v) == IF v.q = "int64" THEN v.n ELSE -2

LegacyTables ==
    {t \in UNION {[1..n -> LegacyRowPool] : n \in 0..MaxLegacyRows} :
        \A i, j \in DOMAIN t : i < j => OrderKey(t[i].id) <= OrderKey(t[j].id)}

InitMig ==
    /\ pc = "boot"
    /\ tableCols = LegacyCols
    /\ legacyRows \in LegacyTables
    /\ entries = <<>> /\ seq = 0
    /\ views = <<>> /\ viewSeq = 0
    /\ result = Res("start", 0, "", ErrNil, <<>>)
    /\ assigned = LegacyMaxId(legacyRows)
    /\ expected = <<>> /\ bootClean = TRUE
    /\ mSchema = <<>> /\ mDoc = NilMap /\ mOut = <<>>
    /\ file = JNull
    /\ config = <<>> /\ upd = <<>>
    /\ orig = legacyRows

NextMig == InitializeDB \/ InsertDocument \/ ListDocuments

SpecMig == InitMig /\ [][NextMig]_vars

\* the JSON value a legacy column value is to become
JsonOfSql(v) ==
    CASE v.q = "nil" -> JNull
      [] v.q = "int64" -> JNum(v.n)
      [] v.q = "string" -> JStr(v.s)
      [] v.q = "[]byte" -> JStr(v.s)

\* the ids of the legacy rows are positive integers, no two the same
PositiveDistinctIds(lrows) ==
    /\ \A i \in DOMAIN lrows : lrows[i].id.q = "int64" /\ lrows[i].id.n > 0
    /\ \A i, j \in DOMAIN lrows : lrows[i].id = lrows[j].id => i = j

-----------------------------------------------------------------------------
(* The round trip: "Save file" on a store, "New DB", and "Open file" on    *)
(* the buffer that was saved.                                              *)

RtTexts ==
    { MarshalDoc(getEmptyRowFromSchema(Schema)),
      JObj([k \in {"Title", "X"} |-> IF k = "Title" THEN JStr("A") ELSE JNum(5)]),
      JObj([k \in {"Title", "ID"} |-> IF k = "Title" THEN JStr("B") ELSE JNum(9)]),
      Garbage("oops") }

\* tables of entries with ids up to MaxId - 1 (the fresh store holds a blank row)
RtEntries ==
    {t \in UNION {[1..n -> [id : 1..(MaxId - 1), data : RtTexts]] : n \in 0..(MaxId - 1)} :
        \A i, j \in DOMAIN t : i < j => t[i].id < t[j].id}

RtViews ==
    {t \in UNION {[1..n -> [id : 1..MaxViewId, name : {"v", "w"},
                            data : {JNull, JArr(<<>>), JArr(<<JStr("Title")>>)}]] :
                     n \in 0..MaxViewId} :
        \A i, j \in DOMAIN t : i < j => t[i].id < t[j].id}

InitRT ==
    /\ pc = "ready"
    /\ tableCols = DocCols /\ legacyRows = <<>>
    /\ entries \in RtEntries /\ seq = MaxRowId(entries)
    /\ views \in RtViews /\ viewSeq = MaxRowId(views)
    /\ result = Res("start", 0, "", ErrNil, <<>>)
    /\ assigned = seq
    /\ expected = Contents(getAllRows(entries))
    /\ bootClean = \A i \in DOMAIN entries : entries[i].data.t = "obj"
    /\ mSchema = <<>> /\ mDoc = NilMap /\ mOut = <<>>
    /\ file = JNull /\ orig = [rows |-> <<>>, views |-> <<>>]
    /\ config = <<>> /\ upd = <<>>

\* the toolbar's "Save file": the store is exported into a buffer
SaveFile ==
    /\ Usable /\ result.op = "start"
    /\ file' = ExportFile(Schema, entries, views)
    /\ orig' = [rows |-> entries, views |-> views]
    /\ result' = Res("export", 0, "", ErrNil, <<>>)
    /\ UNCHANGED <<pc, storeVars, histVars, mergeVars, extVars>>

\* "New DB" once the file is saved
NewDBAfterSave == result.op = "export" /\ NewDB

\* "Open file" on the saved buffer, in the fresh store
OpenSavedFile ==
    /\ Usable /\ result.op = "newDB"
    /\ LET r == OpenFile(Schema, entries, seq, views, viewSeq, file, 0) IN
       /\ entries' = r.rows /\ seq' = r.seq
       /\ views' = r.views /\ viewSeq' = r.viewSeq
       /\ result' = [Res("importSaved", 0, file.t, r.err, r.ids) EXCEPT !.val = file]
       /\ assigned' = IF r.ids = <<>> THEN assigned ELSE Max(assigned, r.ids[Len(r.ids)])
       /\ expected' = ImportedContents(r.ids, DocsOf(file))
    /\ UNCHANGED <<pc, tableCols, legacyRows, bootClean, mergeVars, rtVars, extVars>>

NextRT == SaveFile \/ NewDBAfterSave \/ OpenSavedFile

SpecRT == InitRT /\ [][NextRT]_vars

\* the merged documents of a table, in id order, as JSON
MergedDocs(rows) ==
    LET listing == getAllRows(rows) IN
    [i \in DOMAIN listing |-> MarshalDoc(mergeWithSchema(Schema, listing[i].Data))]

\* the views of a table, in id order, without their ids
ViewList(vrows) ==
    LET vs == getAllViews(vrows) IN
    [i \in DOMAIN vs |-> [Name |-> vs[i].Name, Columns |-> vs[i].Columns]]

\* C3 as claimed: after the saved buffer is imported into the fresh store, the
\* merged documents of the store are those of the exported store and its views
\* are the exported views.
C3_RoundTripSame ==
    result.op = "importSaved" =>
        /\ result.err = ErrNil
        /\ MergedDocs(entries) = MergedDocs(orig.rows)
        /\ ViewList(views) = ViewList(orig.views)

\* C3 as amended: after the saved buffer is imported into the fresh store, the
\* store has one entry per exported entry, in order, whose merged document is the
\* exported entry's merged document with the key ID set to that entry's id in
\* the exported store; its views are the exported views, in order.
C3_RoundTripWithID ==
    result.op = "importSaved" =>
        LET was == getAllRows(orig.rows) IN
        /\ result.err = ErrNil
        /\ Len(entries) = Len(orig.rows)
        /\ \A i \in DOMAIN was :
              MergedDocs(entries)[i]
                 = JObj(SetKey(MergedDocs(orig.rows)[i].o, "ID", JNum(was[i].ID)))
        /\ ViewList(views) = ViewList(orig.views)

\* C3 witness: a store of two entries, one of them holding a key outside the
\* schema, and of two views went through the round trip.
C3_Witness ==
    /\ result.op = "importSaved" /\ result.err = ErrNil
    /\ Len(orig.rows) = 2 /\ Len(orig.views) = 2
    /\ \E i \in DOMAIN orig.rows :
          orig.rows[i].data.t = "obj" /\ "X" \in DOMAIN orig.rows[i].data.o
    /\ Len(entries) = 2 /\ Len(views) = 2

-----------------------------------------------------------------------------
(* The View Manager on its own: insertView, updateView, deleteView and the  *)
(* selection of a view for display (setViewByID, populateTableGrid).        *)

\* UPDATE views SET name = ?, data = ? WHERE id = ?: no row matched is no error
updateView(vrows, id, name, cols) ==
    [rows |-> [i \in DOMAIN vrows |->
                  IF vrows[i].id = id
                  THEN [id |-> id, name |-> name, data |-> MarshalV(cols)]
                  ELSE vrows[i]],
     err |-> ErrNil]

\* a delete that removes the view and every view after it
deleteViewFrom(vrows, id) == SelectSeq(vrows, LAMBDA r : r.id < id)

\* DELETE FROM views WHERE id = ?
deleteView(vrows, id) == SelectSeq(vrows, LAMBDA r : r.id # id)

\* setViewByID: the id, name and columns that become current; an id that no
\* saved view has falls back to "All"
setViewByID(savedViews, id) ==
    IF id # 0 /\ \E i \in DOMAIN savedViews : savedViews[i].ID = id
    THEN LET v == savedViews[CHOOSE i \in DOMAIN savedViews : savedViews[i].ID = id]
         IN  [currentViewID |-> id, currentViewName |-> v.Name,
              currentVisibleCols |-> v.Columns]
    ELSE [currentViewID |-> 0, currentViewName |-> "All",
          currentVisibleCols |-> GNilStrs]

\* populateTableGrid: the names of the effective schema, in schema order
effective(schema, visibleCols) ==
    LET cols == StrsOf(visibleCols)
        showAll == Len(cols) = 0
        names == [i \in DOMAIN schema |-> schema[i].Name]
    IN  SelectSeq(names, LAMBDA n : showAll \/ \E i \in DOMAIN cols : cols[i] = n)

\* column lists handed to insertView: by the edit dialog (nil when no box is
\* checked) or by an import (any list)
ViewColsPool ==
    {GNilStrs, GStrs(<<>>), GStrs(<<"Title">>), GStrs(<<"Gone", "Tags", "Title">>)}

InitViews ==
    /\ pc = "ready"
    /\ StoreIdle
    /\ mSchema = <<>> /\ mDoc = NilMap /\ mOut = <<>>
    /\ file = JNull /\ orig = <<>>
    /\ config = <<>> /\ upd = <<>>

PresentOrAbsent(vrows, id) == IF id \in RowIds(vrows) THEN "present" ELSE "absent"

InsertView ==
    /\ Usable /\ viewSeq < MaxViewId
    /\ \E cols \in ViewColsPool, ioFail \in BOOLEAN :
         LET r == insertView(views, viewSeq, "v", cols, ioFail) IN
         /\ views' = r.rows /\ viewSeq' = r.seq
         /\ result' = [Res("insertView", r.id, "v", r.err, <<>>) EXCEPT !.val = cols]
    /\ UNCHANGED <<pc, tableCols, legacyRows, entries, seq, histVars, mergeVars, rtVars, extVars>>

UpdateView ==
    /\ Usable
    /\ \E id \in 0..MaxViewId, cols \in {GNilStrs, GStrs(<<"Tags">>)} :
         LET r == updateView(views, id, "w", cols) IN
         /\ views' = r.rows
         /\ result' = [Res("updateView", id, PresentOrAbsent(views, id), r.err, <<>>)
                         EXCEPT !.val = cols]
    /\ UNCHANGED <<pc, tableCols, legacyRows, entries, seq, viewSeq, histVars,
                   mergeVars, rtVars, extVars>>

DeleteView ==
    /\ Usable
    /\ \E id \in 0..MaxViewId :
         /\ views' = deleteView(views, id)
         /\ result' = Res("deleteView", id, PresentOrAbsent(views, id), ErrNil, <<>>)
    /\ UNCHANGED <<pc, tableCols, legacyRows, entries, seq, viewSeq, histVars,
                   mergeVars, rtVars, extVars>>

\* the view selector: loadViews, setViewByID and the grid it populates
SelectView ==
    /\ Usable
    /\ \E id \in 0..MaxViewId :
         LET cur == setViewByID(getAllViews(views), id) IN
         result' = [Res("setViewByID", cur.currentViewID, cur.currentViewName, ErrNil, <<>>)
                      EXCEPT !.val = GStrs(effective(Schema, cur.currentVisibleCols))]
    /\ UNCHANGED <<pc, storeVars, histVars, mergeVars, rtVars, extVars>>

NextViews == InsertView \/ UpdateView \/ DeleteView \/ SelectView

SpecViews == InitViews /\ [][NextViews]_vars

\* C11 as claimed: updateView on an id that no persisted view has returns an
\* error and leaves the persisted views as they were.
C11_UpdateViewMissingFails ==
    [][ (result'.op = "updateView" /\ result'.id \notin RowIds(views)) =>
          (result'.err # ErrNil /\ views' = views) ]_vars

\* C12: deleteView on an id that no persisted view has (0, an id never given, an
\* id already deleted) returns no error and leaves the views as they were;
\* deleteView on the id of a view removes that view and no other.
C12_DeleteViewIdempotent ==
    [][ result'.op = "deleteView" =>
          /\ result'.err = ErrNil
          /\ result'.id \notin RowIds(views) => views' = views
          /\ result'.id \in RowIds(views) =>
                /\ RowIds(views') = RowIds(views) \ {result'.id}
                /\ \A i \in DOMAIN views' : \E j \in DOMAIN views : views'[i] = views[j]
                /\ Ascending([i \in DOMAIN views' |-> views'[i].id]) ]_vars

\* C12 witness: deleteView has run on the id of a view deleted before, while
\* another view is persisted.
C12_Witness ==
    /\ result.op = "deleteView" /\ result.key = "absent"
    /\ result.id > 0 /\ result.id <= viewSeq
    /\ views # <<>>

\* the schema's field names that a column list names, in schema order
NamedFields(schema, cols) ==
    SelectSeq([i \in DOMAIN schema |-> schema[i].Name],
              LAMBDA n : \E i \in DOMAIN cols : cols[i] = n)

\* C17 as claimed: selecting "All" (id 0) displays every schema field; selecting
\* a persisted view displays exactly the schema fields its columns name, in
\* schema order, so none for an empty column list.
C17_ViewDisplay ==
    [][ result'.op = "setViewByID" =>
          IF result'.id = 0
          THEN result'.val = GStrs([i \in DOMAIN Schema |-> Schema[i].Name])
          ELSE LET v == getAllViews(views)[CHOOSE i \in DOMAIN views :
                                              views[i].id = result'.id]
               IN  result'.val = GStrs(NamedFields(Schema, StrsOf(v.Columns))) ]_vars

-----------------------------------------------------------------------------
(* Imports on their own, of the buffers of FilePool and of buffers that    *)
(* hold views only.  result.val is the buffer of the last import and       *)
(* result.id the number of the insert that failed (0: none).               *)

ViewFilePool ==
    { JObj([k \in {"views"} |-> JArr(<<FileViewW>>)]),
      JObj([k \in {"views"} |-> JArr(<<FileViewW, FileViewV>>)]),
      JObj([k \in {"views"} |-> JStr("A")]) }

ImportViewFile == ImportFrom(ViewFilePool)

NextImport == InitializeDB \/ Import \/ ImportViewFile

SpecImport == Init /\ [][NextImport]_vars

HasViewsKey(data) == data.t = "obj" /\ "views" \in DOMAIN data.o

\* the views a buffer holds, by name and columns, in input order
ViewsOf(data) ==
    LET vs == DecodeViews(data.o["views"]) IN
    [i \in DOMAIN vs |-> [Name |-> vs[i].Name, Columns |-> vs[i].Columns]]

\* the first n elements of a sequence
Prefix(sq, n) == SubSeq(sq, 1, IF n < Len(sq) THEN n ELSE Len(sq))

C14_FormatErrorKeepsStore ==
    [][ (result'.op = "import" /\ result'.val.t \in {"num", "str", "bool", "null"}) =>
          /\ result'.err = ErrFormat
          /\ entries' = entries
          /\ views' = views ]_vars

\* C15: when insert number k of an import fails, the import reports that error;
\* the documents before k are the entries of the store, under new ids, the views
\* before k (when k falls among the views) are the persisted views, nothing at
\* or after k is inserted, and no entry from before the import is left.
C15_ImportStopsAtFailure ==
    [][ (result'.op = "import" /\ result'.id > 0) =>
          LET k == result'.id
              docs == DocsOf(result'.val)
              n == Len(docs)
              kept == Prefix(docs, k - 1)
          IN
          /\ result'.err = ErrIO
          /\ Len(entries') = Len(kept)
          /\ \A i \in DOMAIN kept :
                /\ getAllRows(entries')[i].Data = UnmarshalDoc(MarshalDoc(
                                                     mergeWithSchema(Schema, kept[i]))).m
                /\ entries'[i].id > seq
          /\ IF k <= n THEN views' = views
             ELSE ViewList(views') = Prefix(ViewsOf(result'.val), k - n - 1) ]_vars

\* C15 witness: the third insert of an import of one document and two views has
\* failed in a store that held entries before; the document is the only entry
\* and the first view the only view.
C15_Witness ==
    /\ result.op = "import" /\ result.id = 3 /\ result.err = ErrIO
    /\ result.val.t = "obj" /\ Len(DocsOf(result.val)) = 1
    /\ Len(entries) = 1 /\ entries[1].id > 1
    /\ Len(views) = 1

-----------------------------------------------------------------------------
(* loadConfig on its own.  A field description is a list of declarations    *)
(* [name, tok]; it is written as a JSON list when the path ends in .json    *)
(* and as the lines of "type DataEntry struct { ... }" otherwise.  A type   *)
(* token is [slice, ident, rest]: an optional "[]", an identifier (empty    *)
(* when the token does not start with one) and what follows it.             *)

Tok(slice, ident, rest) == [slice |-> slice, ident |-> ident, rest |-> rest]

TypeTokens ==
    { Tok(FALSE, "int", ""), Tok(FALSE, "string", ""), Tok(TRUE, "string", ""),
      Tok(FALSE, "link", ""), Tok(TRUE, "int", ""), Tok(FALSE, "float64", ""),
      Tok(FALSE, "map", "[string]int"), Tok(FALSE, "", "*int") }

\* the text of a token
TokText(tok) ==
    CASE tok = Tok(FALSE, "int", "") -> "int"
      [] tok = Tok(FALSE, "string", "") -> "string"
      [] tok = Tok(TRUE, "string", "") -> "[]string"
      [] tok = Tok(FALSE, "link", "") -> "link"
      [] tok = Tok(TRUE, "int", "") -> "[]int"
      [] tok = Tok(FALSE, "float64", "") -> "float64"
      [] tok = Tok(FALSE, "map", "[string]int") -> "map[string]int"
      [] tok = Tok(FALSE, "map", "") -> "map"
      [] tok = Tok(FALSE, "", "*int") -> "*int"

\* the structured path: the switch on fields[i].Type
loadConfigJSON(decls) ==
    [err |-> ErrNil,
     fields |-> [i \in DOMAIN decls |->
        LET t == TokText(decls[i].tok) IN
        FieldDef(decls[i].name,
                 IF t \in {"int", "string", "[]string", "link"} THEN t ELSE "string")]]

\* fieldRe on the line "name tok": no match when the token does not start with
\* "[]" or an identifier, else the token up to the end of its identifier
fieldRe(decl) ==
    IF decl.tok.ident = "" THEN [match |-> FALSE, name |-> "", typ |-> "", slice |-> FALSE]
    ELSE [match |-> TRUE, name |-> decl.name,
          typ |-> TokText(Tok(decl.tok.slice, decl.tok.ident, "")),
          slice |-> decl.tok.slice]

\* the legacy path: the lines between the marker and the closing brace
RECURSIVE loadConfigLines(_, _)
loadConfigLines(decls, fields) ==
    IF decls = <<>> THEN fields
    ELSE LET m == fieldRe(Head(decls))
             typ == IF m.typ \in {"int", "string", "[]string"} THEN m.typ
                    ELSE IF m.slice THEN m.typ
                    ELSE "string"
         IN  loadConfigLines(Tail(decls),
                 IF m.match THEN Append(fields, FieldDef(m.name, typ)) ELSE fields)

loadConfigLegacy(decls) == [err |-> ErrNil, fields |-> loadConfigLines(decls, <<>>)]

loadConfig(path, decls) ==
    IF path = "json" THEN loadConfigJSON(decls) ELSE loadConfigLegacy(decls)

ConfigPool ==
    UNION {[1..n -> [name : {"A", "B"}, tok : TypeTokens]] : n \in 0..MaxFields}

InitConfig ==
    /\ pc = "config"
    /\ StoreIdle
    /\ mSchema = <<>> /\ mDoc = NilMap /\ mOut = <<>>
    /\ file = JNull /\ orig = <<>>
    /\ config \in ConfigPool /\ upd = <<>>

\* main: loadConfig("config.json") or loadConfig of a path without that suffix
LoadConfig ==
    /\ pc = "config"
    /\ \E path \in {"json", "legacy"} :
         LET r == loadConfig(path, config) IN
         /\ mSchema' = r.fields
         /\ result' = Res("loadConfig", 0, path, r.err, <<>>)
    /\ UNCHANGED <<pc, storeVars, histVars, mDoc, mOut, rtVars, extVars>>

NextConfig == LoadConfig

SpecConfig == InitConfig /\ [][NextConfig]_vars

\* the normalized type of a type token as the claim gives it
NormalType(t) == IF t \in {"int", "string", "[]string", "link"} THEN t ELSE "string"

\* C16 as claimed: on either path loading reports no error and every declared
\* field is loaded with the type t when its token t is int, string, []string or
\* link, and with string otherwise.
C16_SameNormalization ==
    result.op = "loadConfig" =>
        /\ result.err = ErrNil
        /\ Len(mSchema) = Len(config)
        /\ \A i \in DOMAIN config :
              /\ mSchema[i].Name = config[i].name
              /\ mSchema[i].Type = NormalType(TokText(config[i].tok))

-----------------------------------------------------------------------------
(* Two updateField calls that run at the same time.  A call is a SELECT of  *)
(* the row's text (the read), then the assignment to the decoded map and    *)
(* the UPDATE of the row (the write).  upd[p] is call p: where it is, its   *)
(* arguments, the map it read, and whether the other call had written when  *)
(* it read.                                                                 *)

\* updateField up to the decoding of the row: the error and the map
updateFieldRead(rows, id) ==
    IF id \notin RowIds(rows) THEN [err |-> ErrNoRows, m |-> NilMap]
    ELSE LET u == UnmarshalDoc(RowOf(rows, id).data) IN
         [err |-> ErrNil, m |-> IF u.err THEN EmptyMap ELSE u.m]

\* a write that sets the field in the document the row holds at that moment
updateFieldWriteCurrent(rows, id, m, field, value) ==
    IF id \notin RowIds(rows) THEN rows
    ELSE SqlUpdate(rows, id,
             MarshalDoc(SetKey(UnmarshalDoc(RowOf(rows, id).data).m, field, value)))

\* updateField from the assignment on: the map read, with the field set, is
\* written over the row
updateFieldWrite(rows, id, m, field, value) ==
    SqlUpdate(rows, id, MarshalDoc(SetKey(m, field, value)))

RaceDocs ==
    { MarshalDoc(getEmptyRowFromSchema(Schema)),
      JObj([k \in {"X"} |-> JNum(5)]),
      JObj([k \in {"Title", "X"} |-> IF k = "Title" THEN JStr("A") ELSE JNum(5)]) }

RaceStores ==
    {t \in UNION {[1..n -> [id : 1..MaxId, data : RaceDocs]] : n \in 1..2} :
        \A i, j \in DOMAIN t : i < j => t[i].id < t[j].id}

Call(id, field, value) ==
    [pc |-> "call", id |-> id, field |-> field, value |-> value, m |-> NilMap,
     err |-> ErrNil, afterWrite |-> FALSE]

RaceCalls ==
    {<<Call(i, "Title", GString("Report")), Call(j, f, GString("new"))>> :
        i \in 1..MaxId, j \in 1..MaxId, f \in {"Tags", "X"}}

InitRace ==
    /\ pc = "ready"
    /\ tableCols = DocCols /\ legacyRows = <<>>
    /\ entries \in RaceStores /\ seq = MaxRowId(entries)
    /\ views = <<>> /\ viewSeq = 0
    /\ result = Res("start", 0, "", ErrNil, <<>>)
    /\ assigned = seq
    /\ expected = Contents(getAllRows(entries))
    /\ bootClean = TRUE
    /\ mSchema = <<>> /\ mDoc = NilMap /\ mOut = <<>>
    /\ file = JNull /\ orig = entries
    /\ config = <<>>
    /\ upd \in RaceCalls

Other(p) == 3 - p

\* call p runs its SELECT and decodes the text
UpdateFieldRead(p) ==
    /\ upd[p].pc = "call"
    /\ LET r == updateFieldRead(entries, upd[p].id) IN
       upd' = [upd EXCEPT ![p] = [@ EXCEPT !.pc = IF r.err = ErrNil THEN "read" ELSE "done",
                                            !.m = r.m, !.err = r.err,
                                            !.afterWrite = upd[Other(p)].pc = "done"
                                                           /\ upd[Other(p)].err = ErrNil]]
    /\ UNCHANGED <<pc, storeVars, result, histVars, mergeVars, rtVars, config>>

\* call p sets its field in the map it read and runs its UPDATE
UpdateFieldWrite(p) ==
    /\ upd[p].pc = "read"
    /\ entries' = updateFieldWrite(entries, upd[p].id, upd[p].m, upd[p].field, upd[p].value)
    /\ upd' = [upd EXCEPT ![p] = [@ EXCEPT !.pc = "done"]]
    /\ result' = [Res("updateField", upd[p].id, upd[p].field, ErrNil, <<>>)
                    EXCEPT !.val = upd[p].value]
    /\ UNCHANGED <<pc, tableCols, legacyRows, seq, views, viewSeq, histVars, mergeVars,
                   rtVars, config>>

NextRace == \E p \in 1..2 : UpdateFieldRead(p) \/ UpdateFieldWrite(p)

SpecRace == InitRace /\ [][NextRace]_vars

\* both calls have returned without error, on the same id
BothDone ==
    /\ upd[1].pc = "done" /\ upd[2].pc = "done"
    /\ upd[1].err = ErrNil /\ upd[2].err = ErrNil
    /\ upd[1].id = upd[2].id

\* the call that wrote last
LastWriter == IF result.key = upd[1].field THEN 1 ELSE 2

\* a JSON document with one key set
JsonWith(doc, key, gv) == JObj(SetKey(doc.o, key, MarshalV(gv)))

\* C18: of two updateField calls on one entry and different fields that have
\* both read before either wrote, only the field of the one that wrote last is
\* changed in the stored document and the other field is as before the calls;
\* when one call read after the other wrote, both fields are changed.
C18_LostUpdate ==
    BothDone =>
        LET id == upd[1].id
            before == RowOf(orig, id).data
            after == RowOf(entries, id).data
            w == LastWriter
        IN
        IF upd[1].afterWrite \/ upd[2].afterWrite
        THEN after = JsonWith(JsonWith(before, upd[1].field, upd[1].value),
                              upd[2].field, upd[2].value)
        ELSE after = JsonWith(before, upd[w].field, upd[w].value)

\* C18 witness: both calls read the entry before either wrote, and the Title
\* that the first call wrote is not in the stored document.
C18_Witness ==
    /\ BothDone /\ ~upd[1].afterWrite /\ ~upd[2].afterWrite
    /\ LastWriter = 2
    /\ LET d == RowOf(entries, upd[1].id).data.o IN
       "Title" \notin DOMAIN d \/ d["Title"] # JStr("Report")

-----------------------------------------------------------------------------
(* Initialization of a store that has the document layout, under Spec.     *)

\* C19: initializeDB on an entries table that has the data column migrates
\* nothing and leaves the entries, their ids, the views and the id that the
\* next insertRow returns as they were.
C19_InitIdempotent ==
    [][ (result'.op = "initializeDB" /\ HasCol(tableCols, "data")) =>
          /\ result'.key # "migrated"
          /\ tableCols' = tableCols
          /\ entries' = entries
          /\ views' = views /\ viewSeq' = viewSeq
          /\ \A doc \in InsertPool :
                insertRow(entries', seq', doc, FALSE).id
                   = insertRow(entries, seq, doc, FALSE).id ]_vars

\* C19 witness: initializeDB has run again on a store that an earlier run had
\* migrated and whose entry with the largest id has been deleted since.
C19_Witness ==
    /\ result.op = "initializeDB" /\ result.key = ""
    /\ \E i \in DOMAIN entries :
          entries[i].data.t = "obj" /\ "a" \in DOMAIN entries[i].data.o
    /\ seq > MaxRowId(entries)

-----------------------------------------------------------------------------
(* The migration of every legacy table, under SpecMig.                     *)

\* the stored text a legacy row is to have as a document
LegacyDoc(row) == JObj([c \in DOMAIN row.vals |-> JsonOfSql(row.vals[c])])

\* C20 as claimed: after the migration of a legacy table there are as many
\* entries as legacy rows, every legacy row's values are the document of an
\* entry, and a row with a positive id is the entry with that id.
C20_MigrationLosesNoRow ==
    (result.op = "initializeDB" /\ result.key = "migrated") =>
        /\ Len(entries) = Len(orig)
        /\ \A i \in DOMAIN orig :
              \E j \in DOMAIN entries :
                 /\ entries[j].data = LegacyDoc(orig[i])
                 /\ IdOf(orig[i].id) > 0 => entries[j].id = IdOf(orig[i].id)

-----------------------------------------------------------------------------
(* A field update of an entry whose stored text does not parse, under Spec. *)

\* the stored text still holds the raw text: it is that text, or a document
\* with the text under some key
CarriesRaw(text, raw) ==
    \/ text = Garbage(raw)
    \/ /\ text.t = "obj"
       /\ \E k \in DOMAIN text.o : text.o[k] = JStr(raw)

\* C21 as claimed: after updateField succeeds on an entry whose stored text is
\* not valid JSON, the stored text of that entry still carries the original
\* text, and the listing of the entry shows it under some key.
C21_RawSurvivesUpdate ==
    [][ ( /\ result'.op = "updateField" /\ result'.err = ErrNil
          /\ RowOf(entries, result'.id).data.t = "garbage" ) =>
          LET id == result'.id
              raw == RawOf(RowOf(entries, id).data)
              after == ListedDoc(entries', id)
          IN
          /\ CarriesRaw(RowOf(entries', id).data, raw)
          /\ \E k \in DOMAIN after : after[k] = GString(raw) ]_vars

=============================================================================
